---- MODULE Spec2Model ----
(***************************************************************************)
(* Model of the podcast chat agent (Chat durable object, its tools and its *)
(* generation pipelines).  The repository holds two revisions of the agent *)
(* class: src/src/server.ts (basic pipeline with the UNIQUE-constraint     *)
(* branch, two-stage recommendation) and src/unnamed/part_000 (adds        *)
(* createAudioPodcast, simpler generatePodcast / recommendPodcast).  The   *)
(* variable build says which revision is deployed.                         *)
(*                                                                         *)
(* Text is modelled as a sequence of tokens: a template literal is the     *)
(* concatenation of its literal chunks and its interpolated values, and    *)
(* topics and moods are sequences of characters.                           *)
(***************************************************************************)
EXTENDS Integers, Sequences, FiniteSets, TLC

\* ------------------------------------------------------------------ bounds
MaxTime == 2
MaxRuns == 3
MaxAudioRuns == 2
MaxInvocations == 3
MaxTurns == 2
MaxRecords == 3
MaxQueries == 2
MaxMessages == 2
MaxTasks == 1
MaxTopicLen == 3
MaxLiveRuns == 1

\* ------------------------------------------------------------- text values
\* JavaScript undefined and SQL NULL, kept apart from every text.
Undefined == <<"<undefined>">>
Null == <<"<null>">>

\* String conversion of an interpolated value.
ToStr(v) == IF v = Undefined THEN <<"undefined">> ELSE v

\* JavaScript truthiness of a string-or-undefined value.
Truthy(v) == v # Undefined /\ v # <<>>

\* text contains sub as a contiguous piece.
Contains(text, sub) ==
    \E i \in 0..(Len(text) - Len(sub)) : SubSeq(text, i + 1, i + Len(sub)) = sub

baseUrl == "https://podcaster.lizziepika.workers.dev"

\* baseUrl + "/" + slug
UrlOf_NoSlash(slug) == <<baseUrl>> \o ToStr(slug)

UrlOf(slug) == <<baseUrl, "/">> \o ToStr(slug)

\* `${slug}-${timestamp}`
Disambiguate_NoSuffix(slug, timestamp) == ToStr(slug)

Disambiguate_TimestampOnly(slug, timestamp) == <<ToString(timestamp)>>

Disambiguate(slug, timestamp) == ToStr(slug) \o <<"-", ToString(timestamp)>>

\* String.prototype.toLowerCase, character by character.
LowerChar(c) == CASE c = "A" -> "a" [] c = "B" -> "b" [] OTHER -> c

toLowerCase(str) == [i \in 1..Len(str) |-> LowerChar(str[i])]

\* The character class [a-z0-9] of the slug regular expressions.
IsAlnum(c) == c \in {"a", "b", "c", "s", "t", "0", "1", "2"}

\* str.replace(/[^a-z0-9]+/g, "-"): every maximal run of other characters
\* becomes one hyphen.
RECURSIVE ReplaceNonAlnum(_)
ReplaceNonAlnum(str) ==
    IF str = <<>> THEN <<>>
    ELSE IF IsAlnum(Head(str)) THEN <<Head(str)>> \o ReplaceNonAlnum(Tail(str))
    ELSE IF Len(str) > 1 /\ ~IsAlnum(str[2]) THEN ReplaceNonAlnum(Tail(str))
    ELSE <<"-">> \o ReplaceNonAlnum(Tail(str))

\* str.replace(/^-|-$/g, ""): one hyphen off the front, one off the end.
TrimHyphens_None(str) == str

TrimHyphens(str) ==
    LET a == IF str # <<>> /\ Head(str) = "-" THEN Tail(str) ELSE str
    IN IF a # <<>> /\ a[Len(a)] = "-" THEN SubSeq(a, 1, Len(a) - 1) ELSE a

\* String.prototype.trim for the whitespace character of the model.
RECURSIVE TrimLeft(_)
TrimLeft(str) ==
    IF str # <<>> /\ Head(str) = " " THEN TrimLeft(Tail(str)) ELSE str

RECURSIVE TrimRight(_)
TrimRight(str) ==
    IF str # <<>> /\ str[Len(str)] = " " THEN TrimRight(SubSeq(str, 1, Len(str) - 1))
    ELSE str

trim(str) == TrimRight(TrimLeft(str))

Session == {"s1", "s2"}
Build == {"server", "audio"}

\* Topics the language model passes to the tools.
Topics == { <<"!", "A", " ", "&", "b", "?">> }

\* Slugs the text-generation capability may suggest; the third has the shape of
\* a disambiguated slug.
SlugTexts == { <<"pod">>, <<"pod", "-", "1">> }

\* Outcomes of one text-generation call: "reject" is a rejected promise,
\* Undefined a response object without text, <<>> the empty string.
Reject == <<"<reject>">>
SlugResponses == {Reject, Undefined, <<>>} \cup SlugTexts

\* The message the capability writes about a url: it may or may not repeat it.
MsgResponses(url) == {Reject, Undefined, <<>>, <<"Enjoy!">>, <<"Listen: ">> \o url}

\* ------------------------------------------------------------------- state
VARIABLES build, now, db, columns, run, started,
          invs, turn, stream, transportError, turns,
          messages, tasks, firings

pipelineVars == <<now, db, columns, run, started>>
resolverVars == <<invs, turn, stream, transportError, turns>>
schedulerVars == <<messages, tasks, firings>>
vars == <<build, now, db, columns, run, started,
          invs, turn, stream, transportError, turns,
          messages, tasks, firings>>

IdleRun == [op |-> "none", pc |-> "idle", topic |-> <<>>, mode |-> "standard",
            slug |-> Undefined, url |-> <<>>, finalUrl |-> <<>>,
            script |-> Undefined, audioDataUrl |-> <<>>, existed |-> FALSE,
            calls |-> <<>>, outcome |-> "none", result |-> Undefined,
            limit |-> 0, mood |-> <<>>, podcasts |-> <<>>, stage1 |-> Undefined]

\* A session's turn: the context carrier's store during the turn, the
\* resolver's position in the history, the length of the history and the
\* invocations without a result when the turn began, and the number of
\* results the turn has produced.
IdleTurn == [active |-> FALSE, store |-> "none", pos |-> 0, len0 |-> 0,
             unresolved |-> {}, produced |-> 0]

\* The optional columns of the podcasts table.
OptionalColumns == {"script", "audio_data"}

\* SELECT slug FROM podcasts WHERE slug = ?
existsBySlug(slug) == \E i \in 1..Len(db) : db[i].slug = slug

\* The UNIQUE constraint on podcasts.slug: an INSERT of a slug the table
\* already holds fails with "UNIQUE constraint failed".
SlugTaken_Unenforced(slug) == FALSE

SlugTaken(slug) == existsBySlug(slug)

\* A bound parameter that is undefined is refused by the store driver.
Bindable(v) == v # Undefined

\* One row of the podcasts table; created_at is datetime('now').
Record(topic, slug, url, script, audio, created_at) ==
    [topic |-> topic, slug |-> slug, url |-> url, script |-> script,
     audio_data |-> audio, created_at |-> created_at]

Log(s, call) == Append(run[s].calls, call)

\* A successful INSERT INTO podcasts adds the bound values as one row.
Inserted_Twice(table, record) == Append(Append(table, record), record)

Inserted(table, record) == Append(table, record)

\* The number of pipeline runs explored under each revision.
RunBound == IF build = "server" THEN MaxRuns ELSE MaxAudioRuns

\* The store starts with the base table (topic, slug, url, created_at) and
\* no record.
InitStore ==
    /\ now = 1
    /\ db = <<>>
    /\ columns = {}
    /\ run = [s \in Session |-> IdleRun]
    /\ started = 0

\* No message and no tool invocation in any history, no turn in progress, no
\* scheduled operation.
InitChat ==
    /\ messages = [s \in Session |-> <<>>]
    /\ tasks = <<>>
    /\ firings = 0
    /\ invs = [s \in Session |-> <<>>]
    /\ turn = [s \in Session |-> IdleTurn]
    /\ stream = [s \in Session |-> <<>>]
    /\ transportError = [s \in Session |-> FALSE]
    /\ turns = 0

\* The revision of src/src/server.ts is deployed.
Init == build = "server" /\ InitStore /\ InitChat

\* The revision of src/unnamed/part_000 is deployed.
InitAudio == build = "audio" /\ InitStore /\ InitChat

\* Date.now() and datetime('now'): the clock has advanced by any amount since
\* it was last read.
Clock == now..MaxTime

\* ------------------------------------------------------- generatePodcast
\* The tool's execute function calls agent.generatePodcast(topic).
StartGeneratePodcast(s) ==
    /\ run[s].pc \in {"idle", "done"}
    /\ started < RunBound
    /\ \E topic \in Topics :
         run' = [run EXCEPT ![s] = [IdleRun EXCEPT !.op = "generatePodcast",
                                                   !.pc = "gp_slug",
                                                   !.topic = topic]]
    /\ started' = started + 1
    /\ UNCHANGED <<build, now, db, columns, resolverVars, schedulerVars>>

Throw(s, call) ==
    run' = [run EXCEPT ![s].pc = "done", ![s].outcome = "threw",
                       ![s].result = Undefined, ![s].calls = Log(s, call)]

Return(s, call, text) ==
    run' = [run EXCEPT ![s].pc = "done", ![s].outcome = "returned",
                       ![s].result = text, ![s].calls = Log(s, call)]

\* await this.env.AI.run(...) for the slug, outside any try block.
GpSlug(s) ==
    /\ run[s].pc = "gp_slug"
    /\ \E r \in SlugResponses :
         IF r = Reject
         THEN Throw(s, "ai.slug")
         ELSE run' = [run EXCEPT ![s].pc = IF build = "server" THEN "gp_tables"
                                                              ELSE "gp_exists",
                                 ![s].slug = r,
                                 ![s].url = UrlOf(r),
                                 ![s].calls = Log(s, "ai.slug")]
    /\ UNCHANGED <<build, now, db, columns, started, resolverVars, schedulerVars>>

\* server.ts only: SELECT name FROM sqlite_master, inside the try block.
GpTables(s) ==
    /\ run[s].pc = "gp_tables"
    /\ \E ok \in BOOLEAN :
         run' = [run EXCEPT ![s].pc = IF ok THEN "gp_exists" ELSE "gp_msg",
                            ![s].calls = Log(s, "db.tables")]
    /\ UNCHANGED <<build, now, db, columns, started, resolverVars, schedulerVars>>

\* The existence check and the disambiguation of the slug.
GpExists(s) ==
    /\ run[s].pc = "gp_exists"
    /\ \E ok \in BOOLEAN :
         IF ok /\ Bindable(run[s].slug)
         THEN IF existsBySlug(run[s].slug)
              THEN \E timestamp \in Clock :
                     /\ now' = timestamp
                     /\ run' = [run EXCEPT
                            ![s].pc = "gp_insert",
                            ![s].slug = Disambiguate(run[s].slug, timestamp),
                            ![s].existed = TRUE,
                            ![s].finalUrl =
                                UrlOf(Disambiguate(run[s].slug, timestamp)),
                            ![s].calls = Log(s, "db.exists")]
              ELSE /\ now' = now
                   /\ run' = [run EXCEPT ![s].pc = "gp_insert",
                                         ![s].finalUrl = UrlOf(run[s].slug),
                                         ![s].calls = Log(s, "db.exists")]
         ELSE /\ now' = now
              /\ run' = [run EXCEPT ![s].pc = "gp_msg",
                                    ![s].calls = Log(s, "db.exists")]
    /\ UNCHANGED <<build, db, columns, started, resolverVars, schedulerVars>>

LiveText(url, topic) ==
    <<"Podcast page is now live at this URL: ">> \o url \o <<" about ">> \o topic

\* The url the catch block of server.ts puts in its text on a UNIQUE
\* constraint error: the one computed before the existence check.
GpConflictUrl_Disambiguated(r) == UrlOf(r.slug)

GpConflictUrl(r) == r.url

\* INSERT INTO podcasts (topic, slug, url, created_at); the table refuses a
\* slug it already holds with a UNIQUE constraint error.
GpInsert(s) ==
    /\ run[s].pc = "gp_insert"
    /\ \E ok \in BOOLEAN :
         IF ~ok
         THEN /\ run' = [run EXCEPT ![s].pc = "gp_msg",
                                    ![s].calls = Log(s, "db.insert.error")]
              /\ UNCHANGED <<db, now>>
         ELSE IF SlugTaken(run[s].slug)
         THEN /\ UNCHANGED <<db, now>>
              /\ IF build = "server"
                 THEN Return(s, "db.insert.unique",
                             LiveText(GpConflictUrl(run[s]), run[s].topic))
                 ELSE run' = [run EXCEPT ![s].pc = "gp_msg",
                                         ![s].calls = Log(s, "db.insert.unique")]
         ELSE /\ \E created_at \in Clock :
                   /\ now' = created_at
                   /\ db' = Inserted(db, Record(run[s].topic, run[s].slug,
                                              run[s].finalUrl, Null, Null,
                                              created_at))
              /\ Return(s, "db.insert.ok",
                        LiveText(run[s].finalUrl, run[s].topic))
    /\ UNCHANGED <<build, columns, started, resolverVars, schedulerVars>>

\* The catch block asks the capability for a message and returns its text.
GpMsg(s) ==
    /\ run[s].pc = "gp_msg"
    /\ \E r \in MsgResponses(run[s].url) :
         IF r = Reject THEN Throw(s, "ai.msg") ELSE Return(s, "ai.msg", r)
    /\ UNCHANGED <<build, now, db, columns, started, resolverVars, schedulerVars>>

\* ---------------------------------------------------- createAudioPodcast
\* accessibilityMode values the language model passes.
Modes == {"standard", "Accessible"}

\* accessibilityMode.toLowerCase() === "accessible"
isAccessible(mode) ==
    (CASE mode = "Accessible" -> "accessible" [] OTHER -> mode) = "accessible"

ScriptResponses == {Reject, Undefined, <<>>, <<"Welcome to the show.">>}

\* The audio capability rejects, answers without an audio field, or answers
\* with a base64 payload.
AudioResponses_NeverSettles == {}

AudioResponses == {Reject, Undefined, <<"bXAz">>}

AudioSlugResponses == {Reject, Undefined, <<>>, <<" ">>, <<" ", "pod">>}

StartCreateAudioPodcast(s) ==
    /\ build = "audio"
    /\ run[s].pc \in {"idle", "done"}
    /\ started < RunBound
    /\ \E topic \in Topics, mode \in Modes :
         run' = [run EXCEPT ![s] = [IdleRun EXCEPT !.op = "createAudioPodcast",
                                                   !.pc = "ca_script",
                                                   !.topic = topic,
                                                   !.mode = mode]]
    /\ started' = started + 1
    /\ UNCHANGED <<build, now, db, columns, resolverVars, schedulerVars>>

\* `audio-${topic.toLowerCase().replace(/[^a-z0-9]+/g, "-")}-fallback-${Date.now()}`
fallbackSlug(topic, timestamp) ==
    <<"audio-">> \o ReplaceNonAlnum(toLowerCase(topic))
                 \o <<"-fallback-", ToString(timestamp)>>

\* The text of the outer catch block.
PlaceholderText(topic, timestamp) ==
    <<"Audio podcast generation encountered issues for \"">> \o topic
        \o <<"\", but a placeholder page was created at: ">>
        \o UrlOf(fallbackSlug(topic, timestamp))

\* Step 5: the text returned after the persistence step.
SuccessText_Placeholder(topic, finalUrl, audioDataUrl) ==
    PlaceholderText(topic, 1)

SuccessText(topic, finalUrl, audioDataUrl) ==
    (IF Truthy(audioDataUrl)
     THEN <<"Audio podcast created successfully for \"">> \o topic
              \o <<"\"! The podcast includes both script and MP3 audio.">>
     ELSE <<"Podcast script created for \"">> \o topic
              \o <<"\", but audio generation failed. You can still visit the page to see the content.">>)
    \o <<"\n\nVisit your podcast: ">> \o finalUrl \o <<"\n\n">>
    \o (IF Truthy(audioDataUrl) THEN <<"Includes playable MP3 audio">>
                                ELSE <<"Text-only version available">>)

\* The script call rejected, or `!scriptResponse.response` threw.
ScriptFailed_RejectOnly(r) == r = Reject

ScriptFailed(r) == r = Reject \/ ~Truthy(r)

\* Step 1: script synthesis; a failure ends in the outer catch block.
CaScript(s) ==
    /\ run[s].pc = "ca_script"
    /\ \E r \in ScriptResponses :
         IF ScriptFailed(r)
         THEN \E timestamp \in Clock :
                /\ now' = timestamp
                /\ Return(s, "ai.script", PlaceholderText(run[s].topic, timestamp))
         ELSE /\ now' = now
              /\ run' = [run EXCEPT ![s].pc = "ca_audio", ![s].script = r,
                                    ![s].calls = Log(s, "ai.script")]
    /\ UNCHANGED <<build, db, columns, started, resolverVars, schedulerVars>>

\* Step 2: audio synthesis inside its own try block.
CaAudio(s) ==
    /\ run[s].pc = "ca_audio"
    /\ \E a \in AudioResponses :
         run' = [run EXCEPT ![s].pc = "ca_slug",
                            ![s].audioDataUrl =
                                IF a # Reject /\ Truthy(a)
                                THEN <<"data:audio/mp3;base64,">> \o a ELSE <<>>,
                            ![s].calls = Log(s, "ai.audio")]
    /\ UNCHANGED <<build, now, db, columns, started, resolverVars, schedulerVars>>

\* slugResponse.response?.trim() || topic.toLowerCase().replace(...).replace(...)
CaSlugOf(r, topic) ==
    LET trimmed == IF r = Undefined THEN Undefined ELSE trim(r)
    IN <<"audio-">> \o (IF Truthy(trimmed) THEN trimmed
                        ELSE TrimHyphens(ReplaceNonAlnum(toLowerCase(topic))))

\* Step 3: slug synthesis; the call is guarded by the outer try block only.
CaSlug(s) ==
    /\ run[s].pc = "ca_slug"
    /\ \E r \in AudioSlugResponses :
         IF r = Reject
         THEN \E timestamp \in Clock :
                /\ now' = timestamp
                /\ Return(s, "ai.slug", PlaceholderText(run[s].topic, timestamp))
         ELSE /\ now' = now
              /\ run' = [run EXCEPT ![s].pc = "ca_exists",
                                    ![s].slug = CaSlugOf(r, run[s].topic),
                                    ![s].calls = Log(s, "ai.slug")]
    /\ UNCHANGED <<build, db, columns, started, resolverVars, schedulerVars>>

\* The existence check in its own try block; a failure leaves the slug as is.
CaExists(s) ==
    /\ run[s].pc = "ca_exists"
    /\ \E ok \in BOOLEAN :
         IF ok /\ existsBySlug(run[s].slug)
         THEN \E timestamp \in Clock :
                /\ now' = timestamp
                /\ run' = [run EXCEPT
                       ![s].pc = "ca_alter_script",
                       ![s].slug = Disambiguate(run[s].slug, timestamp),
                       ![s].existed = TRUE,
                       ![s].finalUrl = UrlOf(Disambiguate(run[s].slug, timestamp)),
                       ![s].calls = Log(s, "db.exists")]
         ELSE /\ now' = now
              /\ run' = [run EXCEPT ![s].pc = "ca_alter_script",
                                    ![s].finalUrl = UrlOf(run[s].slug),
                                    ![s].calls = Log(s, "db.exists")]
    /\ UNCHANGED <<build, db, columns, started, resolverVars, schedulerVars>>

\* ALTER TABLE podcasts ADD COLUMN script TEXT; an error skips the second ALTER.
CaAlterScript(s) ==
    /\ run[s].pc = "ca_alter_script"
    /\ \E ok \in BOOLEAN :
         IF ok /\ "script" \notin columns
         THEN /\ columns' = columns \cup {"script"}
              /\ run' = [run EXCEPT ![s].pc = "ca_alter_audio",
                                    ![s].calls = Log(s, "db.alter.script")]
         ELSE /\ columns' = columns
              /\ run' = [run EXCEPT
                     ![s].pc = "ca_insert",
                     ![s].calls = Log(s, IF ok THEN "db.alter.script.duplicate"
                                               ELSE "db.alter.script.error")]
    /\ UNCHANGED <<build, now, db, started, resolverVars, schedulerVars>>

\* ALTER TABLE podcasts ADD COLUMN audio_data TEXT
CaAlterAudio(s) ==
    /\ run[s].pc = "ca_alter_audio"
    /\ \E ok \in BOOLEAN :
         /\ columns' = IF ok /\ "audio_data" \notin columns
                       THEN columns \cup {"audio_data"} ELSE columns
         /\ run' = [run EXCEPT
                ![s].pc = "ca_insert",
                ![s].calls = Log(s, IF ~ok THEN "db.alter.audio_data.error"
                                    ELSE IF "audio_data" \in columns
                                    THEN "db.alter.audio_data.duplicate"
                                    ELSE "db.alter.audio_data")]
    /\ UNCHANGED <<build, now, db, started, resolverVars, schedulerVars>>

\* `${isAccessible ? "Accessible" : "Audio"}: ${topic}`
FullTopic(mode, topic) ==
    <<IF isAccessible(mode) THEN "Accessible" ELSE "Audio", ": ">> \o topic

\* Step 4: the insert with script and audio_data.
CaInsert(s) ==
    /\ run[s].pc = "ca_insert"
    /\ \E ok \in BOOLEAN :
         IF ok /\ OptionalColumns \subseteq columns /\ ~SlugTaken(run[s].slug)
         THEN /\ \E created_at \in Clock :
                   /\ now' = created_at
                   /\ db' = Inserted(db, Record(FullTopic(run[s].mode, run[s].topic),
                                              run[s].slug, run[s].finalUrl,
                                              run[s].script,
                                              IF Truthy(run[s].audioDataUrl)
                                              THEN run[s].audioDataUrl ELSE Null,
                                              created_at))
              /\ Return(s, "db.insert.full.ok",
                        SuccessText(run[s].topic, run[s].finalUrl,
                                    run[s].audioDataUrl))
         ELSE /\ UNCHANGED <<db, now>>
              /\ run' = [run EXCEPT ![s].pc = "ca_basic",
                                    ![s].calls = Log(s, "db.insert.full.error")]
    /\ UNCHANGED <<build, columns, started, resolverVars, schedulerVars>>

\* The fallback insert of topic, slug and url; its failure is only logged.
CaBasicInsert(s) ==
    /\ run[s].pc = "ca_basic"
    /\ \E ok \in BOOLEAN :
         IF ok /\ ~SlugTaken(run[s].slug)
         THEN /\ \E created_at \in Clock :
                   /\ now' = created_at
                   /\ db' = Inserted(db, Record(<<"Audio", ": ">> \o run[s].topic,
                                              run[s].slug, run[s].finalUrl,
                                              Null, Null, created_at))
              /\ Return(s, "db.insert.basic.ok",
                        SuccessText(run[s].topic, run[s].finalUrl,
                                    run[s].audioDataUrl))
         ELSE /\ UNCHANGED <<db, now>>
              /\ Return(s, "db.insert.basic.error",
                        SuccessText(run[s].topic, run[s].finalUrl,
                                    run[s].audioDataUrl))
    /\ UNCHANGED <<build, columns, started, resolverVars, schedulerVars>>

\* ----------------------------------------------------- listRecentPodcasts
\* The limit the tool passes: the language model's number, or 10.
Limits == 0..(MaxRecords + 1)

Min(a, b) == IF a < b THEN a ELSE b

\* ORDER BY created_at DESC: the rows in an order in which created_at never
\* increases; the order of rows with equal created_at is the store's choice.
OrderByCreatedAtDesc ==
    LET k == Len(db)
        perms == {p \in [1..k -> 1..k] :
                    /\ \A i, j \in 1..k : i # j => p[i] # p[j]
                    /\ \A i \in 1..k : i < k =>
                          db[p[i]].created_at >= db[p[i + 1]].created_at}
    IN {[i \in 1..k |-> db[p[i]]] : p \in perms}

\* LIMIT ?: a negative limit is no limit.
LimitRows_Unlimited(rows, limit) == rows

LimitRows(rows, limit) ==
    IF limit < 0 THEN rows ELSE SubSeq(rows, 1, Min(limit, Len(rows)))

\* new Date(p.created_at).toLocaleString()
toLocaleString(created_at) == <<ToString(created_at)>>

\* `* ${p.topic} - ${p.url} (Generated: ${...})`, the bullet written as "* ".
DigestEntry(p) ==
    <<"* ">> \o p.topic \o <<" - ">> \o p.url \o <<" (Generated: ">>
    \o toLocaleString(p.created_at) \o <<")">>

\* podcasts.map(...).join('\n')
RECURSIVE JoinEntries(_)
JoinEntries(podcasts) ==
    IF podcasts = <<>> THEN <<>>
    ELSE IF Len(podcasts) = 1 THEN DigestEntry(podcasts[1])
    ELSE DigestEntry(podcasts[1]) \o <<"\n">> \o JoinEntries(Tail(podcasts))

\* The header of the digest in each revision.
DigestHeader(limit, podcasts) ==
    IF build = "server"
    THEN <<" ", ToString(limit), " recent podcasts (", ToString(Len(podcasts)),
           "):\n\n">>
    ELSE <<"Recent podcasts (", ToString(Len(podcasts)), "):\n\n">>

NoneYetText == <<"No podcasts have been generated yet.">>

\* The text listRecentPodcasts returns for the rows of the query.
ListResult_AlwaysDigest(limit, podcasts) ==
    DigestHeader(limit, podcasts) \o JoinEntries(podcasts)

ListResult(limit, podcasts) ==
    IF Len(podcasts) = 0 THEN NoneYetText
    ELSE DigestHeader(limit, podcasts) \o JoinEntries(podcasts)

ListFailedText ==
    <<"Failed to retrieve podcast list from database. Error: ", "Error: D1_ERROR">>

\* The tool's execute function calls agent.listRecentPodcasts(limit).
StartListRecentPodcasts(s) ==
    /\ run[s].pc \in {"idle", "done"}
    /\ started < MaxQueries
    /\ \E limit \in Limits :
         run' = [run EXCEPT ![s] = [IdleRun EXCEPT
                    !.op = "listRecentPodcasts",
                    !.pc = IF build = "server" THEN "lr_tables" ELSE "lr_query",
                    !.limit = limit]]
    /\ started' = started + 1
    /\ UNCHANGED <<build, now, db, columns, resolverVars, schedulerVars>>

\* server.ts only: SELECT name FROM sqlite_master before the query.
LrTables(s) ==
    /\ run[s].pc = "lr_tables"
    /\ \E ok \in BOOLEAN :
         IF ok THEN run' = [run EXCEPT ![s].pc = "lr_query",
                                       ![s].calls = Log(s, "db.tables.ok")]
         ELSE Return(s, "db.tables.error", ListFailedText)
    /\ UNCHANGED <<build, now, db, columns, started, resolverVars, schedulerVars>>

\* SELECT topic, slug, url, created_at ... ORDER BY created_at DESC LIMIT ?
LrQuery(s) ==
    /\ run[s].pc = "lr_query"
    /\ \E ok \in BOOLEAN :
         IF ok
         THEN \E rows \in OrderByCreatedAtDesc :
                LET podcasts == LimitRows(rows, run[s].limit)
                IN run' = [run EXCEPT
                       ![s].pc = "done", ![s].outcome = "returned",
                       ![s].podcasts = podcasts,
                       ![s].result = ListResult(run[s].limit, podcasts),
                       ![s].calls = Log(s, "db.list.ok")]
         ELSE Return(s, "db.list.error", ListFailedText)
    /\ UNCHANGED <<build, now, db, columns, started, resolverVars, schedulerVars>>

\* ------------------------------------------------------- recommendPodcast
\* Moods the language model passes.
Moods == { <<"A">>, <<"t">>, <<"t", " ", " ", "s">> }

\* String.prototype.split(' '): the pieces between single spaces, empty
\* pieces included.
RECURSIVE split(_)
split(str) ==
    IF \A i \in 1..Len(str) : str[i] # " " THEN <<str>>
    ELSE LET i == CHOOSE i \in 1..Len(str) :
                    str[i] = " " /\ \A j \in 1..(i - 1) : str[j] # " "
         IN <<SubSeq(str, 1, i - 1)>> \o split(SubSeq(str, i + 1, Len(str)))

\* keywords.some(keyword => podcast.topic.toLowerCase().includes(keyword))
MatchesMood(podcast, mood) ==
    LET keywords == split(toLowerCase(mood))
    IN \E k \in 1..Len(keywords) :
         Contains(toLowerCase(podcast.topic), keywords[k])

\* podcasts.filter(...)
matches(podcasts, mood) ==
    SelectSeq(podcasts, LAMBDA podcast : MatchesMood(podcast, mood))

NoPodcastsText ==
    <<"No podcasts have been generated yet. Generate some podcasts first to get recommendations!">>

RecommendFailedText == <<"Failed to get recommendations. Error: ", "Error">>

\* The heading put before Stage 1's text.
RecommendationText(mood, response) ==
    IF build = "server" THEN <<"Podcast Recommendation:\n\n">> \o response
    ELSE <<"Podcast Recommendation for \"">> \o mood \o <<"\":\n\n">> \o response

\* The text written for the first keyword match.
FoundText(match, mood) ==
    IF build = "server"
    THEN <<"Found a matching podcast!\n\n\"">> \o match.topic
         \o <<"\"\nGenerated: ">> \o toLocaleString(match.created_at)
         \o <<"\nListen here: ">> \o match.url
         \o <<"\n\nThis podcast matches your mood for: ">> \o mood
    ELSE <<"Found a matching podcast!\n\n\"">> \o match.topic
         \o <<"\"\nListen here: ">> \o match.url
         \o <<"\n\nThis matches your mood: ">> \o mood

NoMatchText(mood) ==
    <<"No podcasts found matching \"">> \o mood
    \o <<"\". Try generating some podcasts with topics you're interested in first!">>

\* The answers of the capability to a recommendation prompt.
Stage1Responses == {Reject, Undefined, <<>>, <<"I recommend the first one.">>}

\* The answers of the capability to a personal-message prompt.
PersonalResponses == {Reject, Undefined, <<>>, <<"Picked just for you!">>}

\* podcasts.length === 0
NoPodcasts_Never(podcasts) == FALSE

NoPodcasts(podcasts) == Len(podcasts) = 0

\* The tool's execute function calls agent.recommendPodcast(mood).
StartRecommendPodcast(s) ==
    /\ run[s].pc \in {"idle", "done"}
    /\ started < MaxQueries
    /\ \E mood \in Moods :
         run' = [run EXCEPT ![s] = [IdleRun EXCEPT
                    !.op = "recommendPodcast",
                    !.pc = IF build = "server" THEN "rp_tables" ELSE "rp_query",
                    !.mood = mood]]
    /\ started' = started + 1
    /\ UNCHANGED <<build, now, db, columns, resolverVars, schedulerVars>>

\* server.ts only: SELECT name FROM sqlite_master before the query.
RpTables(s) ==
    /\ run[s].pc = "rp_tables"
    /\ \E ok \in BOOLEAN :
         IF ok THEN run' = [run EXCEPT ![s].pc = "rp_query",
                                       ![s].calls = Log(s, "db.tables.ok")]
         ELSE Return(s, "db.tables.error", RecommendFailedText)
    /\ UNCHANGED <<build, now, db, columns, started, resolverVars, schedulerVars>>

\* SELECT topic, slug, url, created_at FROM podcasts ORDER BY created_at DESC
RpQuery(s) ==
    /\ run[s].pc = "rp_query"
    /\ \E ok \in BOOLEAN :
         IF ok
         THEN \E podcasts \in OrderByCreatedAtDesc :
                IF NoPodcasts(podcasts)
                THEN Return(s, "db.all.ok", NoPodcastsText)
                ELSE run' = [run EXCEPT ![s].pc = "rp_stage1",
                                        ![s].podcasts = podcasts,
                                        ![s].calls = Log(s, "db.all.ok")]
         ELSE Return(s, "db.all.error", RecommendFailedText)
    /\ UNCHANGED <<build, now, db, columns, started, resolverVars, schedulerVars>>

\* Stage 1: the capability is asked for a recommendation; without a text the
\* keyword matching decides.
RpStage1(s) ==
    /\ run[s].pc = "rp_stage1"
    /\ \E r \in Stage1Responses :
         IF r = Reject THEN Return(s, "ai.stage1.reject", RecommendFailedText)
         ELSE IF Truthy(r)
         THEN IF build = "server"
              THEN run' = [run EXCEPT ![s].pc = "rp_stage2", ![s].stage1 = r,
                                      ![s].calls = Log(s, "ai.stage1.ok")]
              ELSE run' = [run EXCEPT
                       ![s].pc = "done", ![s].outcome = "returned",
                       ![s].stage1 = r,
                       ![s].result = RecommendationText(run[s].mood, r),
                       ![s].calls = Log(s, "ai.stage1.ok")]
         ELSE IF Len(matches(run[s].podcasts, run[s].mood)) > 0
         THEN IF build = "server"
              THEN run' = [run EXCEPT ![s].pc = "rp_fallback",
                                      ![s].calls = Log(s, "ai.stage1.empty")]
              ELSE Return(s, "ai.stage1.empty",
                          FoundText(matches(run[s].podcasts, run[s].mood)[1],
                                    run[s].mood))
         ELSE Return(s, "ai.stage1.empty", NoMatchText(run[s].mood))
    /\ UNCHANGED <<build, now, db, columns, started, resolverVars, schedulerVars>>

\* Stage 2 (server.ts): the capability rephrases Stage 1's text; the call is
\* guarded by the method's catch block only.
RpStage2(s) ==
    /\ run[s].pc = "rp_stage2"
    /\ \E r \in PersonalResponses :
         IF r = Reject THEN Return(s, "ai.stage2.reject", RecommendFailedText)
         ELSE IF Truthy(r) THEN Return(s, "ai.stage2.ok", r)
         ELSE Return(s, "ai.stage2.empty",
                     RecommendationText(run[s].mood, run[s].stage1))
    /\ UNCHANGED <<build, now, db, columns, started, resolverVars, schedulerVars>>

\* server.ts: the capability writes the message for the keyword match.
RpFallback(s) ==
    /\ run[s].pc = "rp_fallback"
    /\ \E r \in PersonalResponses :
         IF r = Reject THEN Return(s, "ai.fallback.reject", RecommendFailedText)
         ELSE IF Truthy(r) THEN Return(s, "ai.fallback.ok", r)
         ELSE Return(s, "ai.fallback.empty",
                     FoundText(matches(run[s].podcasts, run[s].mood)[1],
                               run[s].mood))
    /\ UNCHANGED <<build, now, db, columns, started, resolverVars, schedulerVars>>

\* ------------------------------------------------ tools and the resolver
\* The exported tools object of each revision's tools module.
tools ==
    IF build = "audio"
    THEN {"getWeatherInformation", "getLocalTime", "scheduleTask",
          "generatePodcast", "createAudioPodcast", "listRecentPodcasts",
          "recommendPodcast"}
    ELSE {"getWeatherInformation", "getLocalTime", "scheduleTask",
          "generatePodcast", "listRecentPodcasts"}

\* The tool definition binds an execute function; getWeatherInformation omits it.
HasExecute_WeatherToo(name) == TRUE

HasExecute_LocalTimeOmitted(name) ==
    name \notin {"getWeatherInformation", "getLocalTime"}

HasExecute(name) == name # "getWeatherInformation"

\* The keys of the exported executions object.
executions_Empty == {}

executions == {"getWeatherInformation"}

\* What an execute function does when called with the agent the context
\* carrier holds: it returns a text or throws.
Returned(text) == [threw |-> FALSE, text |-> text]
Thrown(text) == [threw |-> TRUE, text |-> text]

\* scheduleTask: no agent throws; a synchronous failure of agent.schedule is
\* reported as text.
ScheduleTaskExecute(agent) ==
    IF agent = "none" THEN {Thrown(<<"No agent found">>)}
    ELSE {Returned(<<"Task scheduled for ", "10">>),
          Returned(<<"Error scheduling task: ", "Error: invalid schedule">>)}

\* generatePodcast.execute returns what agent.generatePodcast returns and
\* throws what it throws: its first capability call is outside the try block.
GeneratePodcastExecute(agent) ==
    IF agent = "none" THEN {Thrown(<<"TypeError">>)}
    ELSE {Returned(LiveText(UrlOf(<<"pod">>), <<"c", "a", "t", "s">>)),
          Thrown(<<"AI.run rejected">>)}

\* The other pipeline tools return the text of the agent's method, which
\* catches every failure itself.
PipelineExecute(name, agent) ==
    IF agent = "none" THEN {Thrown(<<"TypeError">>)}
    ELSE {Returned(<<"text of ", name>>)}

ToolExecute(name, agent) ==
    CASE name = "getLocalTime" -> {Returned(<<"10am">>)}
      [] name = "scheduleTask" -> ScheduleTaskExecute(agent)
      [] name = "generatePodcast" -> GeneratePodcastExecute(agent)
      [] OTHER -> PipelineExecute(name, agent)

\* executions.getWeatherInformation({ city })
WeatherExecution(city) == <<"The weather in ", city, " is sunny">>

\* The resolver (processToolCalls and the execution of the tools of a turn).
Terminal(inv) == inv.status \in {"Executed", "Rejected"}

\* An invocation the resolver still has to settle.
NeedsResolution_Always(inv) == TRUE

NeedsResolution(inv) == ~Terminal(inv)

\* An execution error becomes a textual error result.
CatchExecution_Rethrow(o) ==
    [result |-> o.text, rethrown |-> o.threw]

CatchExecution(o) ==
    [result |-> IF o.threw THEN <<"Error: ">> \o o.text ELSE o.text,
     rethrown |-> FALSE]

RejectionNotice == <<"Error: User denied access to tool execution">>

NewInvocation(id, name) ==
    [id |-> id, name |-> name, decision |-> "none", status |-> "Pending",
     result |-> Undefined, execs |-> 0, threw |-> FALSE, agent |-> "none"]

InvocationCount == Len(invs["s1"]) + Len(invs["s2"])

\* onChatMessage: agentContext.run(this, ...) opens the turn and hands
\* this.messages to the resolver.
onChatMessage(s) ==
    /\ ~turn[s].active
    /\ turns < MaxTurns
    /\ turns' = turns + 1
    /\ turn' = [turn EXCEPT ![s] =
                  [active |-> TRUE, store |-> s, pos |-> 1, len0 |-> Len(invs[s]),
                   unresolved |-> {i \in 1..Len(invs[s]) : ~Terminal(invs[s][i])},
                   produced |-> 0]]
    /\ UNCHANGED <<build, pipelineVars, schedulerVars, invs, stream, transportError>>

\* The language model asks for a tool of the registry during the turn.
ToolCall(s) ==
    /\ turn[s].active
    /\ InvocationCount < MaxInvocations
    /\ \E name \in tools :
         invs' = [invs EXCEPT ![s] =
                    Append(@, NewInvocation(Len(invs[s]) + 1, name))]
    /\ UNCHANGED <<build, pipelineVars, schedulerVars, turn, stream, transportError, turns>>

\* The user answers the confirmation dialog of a pending invocation.
HumanDecision(s) ==
    /\ ~turn[s].active
    /\ \E i \in 1..Len(invs[s]), d \in {"Approved", "Rejected"} :
         /\ ~HasExecute(invs[s][i].name)
         /\ invs[s][i].decision = "none"
         /\ invs' = [invs EXCEPT ![s][i].decision = d]
    /\ UNCHANGED <<build, pipelineVars, schedulerVars, turn, stream, transportError, turns>>

\* agentContext.getStore() in a tool that runs in the turn of session s: the
\* store of the agentContext.run call the turn's asynchronous work started in.
getStore_SharedSlot(s) ==
    IF turn["s2"].active THEN turn["s2"].store ELSE turn[s].store

getStore(s) == turn[s].store

\* The resolver settles the invocation at its position and moves on; agent is
\* the agent the execute function got from the context carrier.
Attach(s, i, status, result, execs, threw, agent) ==
    /\ invs' = [invs EXCEPT ![s][i].status = status,
                            ![s][i].result = result,
                            ![s][i].execs = @ + execs,
                            ![s][i].threw = threw,
                            ![s][i].agent = agent]
    /\ stream' = [stream EXCEPT ![s] = Append(@, [id |-> invs[s][i].id,
                                                   result |-> result])]
    /\ turn' = [turn EXCEPT ![s].pos = @ + 1, ![s].produced = @ + 1]
    /\ UNCHANGED transportError

LeaveUntouched(s, i) ==
    /\ turn' = [turn EXCEPT ![s].pos = @ + 1]
    /\ UNCHANGED <<invs, stream, transportError>>

ResolveStep(s) ==
    /\ turn[s].active
    /\ turn[s].pos <= Len(invs[s])
    /\ LET i == turn[s].pos
           inv == invs[s][i]
       IN IF ~NeedsResolution(inv) THEN LeaveUntouched(s, i)
          ELSE IF HasExecute(inv.name)
          THEN \E o \in ToolExecute(inv.name, getStore(s)) :
                 IF CatchExecution(o).rethrown
                 THEN /\ transportError' = [transportError EXCEPT ![s] = TRUE]
                      /\ invs' = [invs EXCEPT ![s][i].execs = @ + 1,
                                              ![s][i].threw = TRUE,
                                              ![s][i].agent = getStore(s)]
                      /\ turn' = [turn EXCEPT ![s] = IdleTurn]
                      /\ UNCHANGED stream
                 ELSE Attach(s, i, "Executed", CatchExecution(o).result, 1,
                             o.threw, getStore(s))
          ELSE IF inv.decision = "Approved"
          THEN IF inv.name \in executions
               THEN Attach(s, i, "Executed", WeatherExecution("Paris"), 1, FALSE,
                           "none")
               ELSE Attach(s, i, "Executed",
                           <<"Error: No execute function found on tool">>, 0, FALSE,
                           "none")
          ELSE IF inv.decision = "Rejected"
          THEN Attach(s, i, "Rejected", RejectionNotice, 0, FALSE, "none")
          ELSE LeaveUntouched(s, i)
    /\ UNCHANGED <<build, pipelineVars, schedulerVars, turns>>

\* The turn ends when the resolver has gone through the history and the
\* response has been streamed.
EndTurn(s) ==
    /\ turn[s].active
    /\ turn[s].pos > Len(invs[s])
    /\ turn' = [turn EXCEPT ![s] = IdleTurn]
    /\ UNCHANGED <<build, pipelineVars, schedulerVars, invs, stream, transportError, turns>>

\* The sessions whose chat turns are explored; turns of one session are
\* serialized and sessions share no chat state.
ChatSession == {"s1"}

NextChat ==
    \/ \E s \in ChatSession : onChatMessage(s)
    \/ \E s \in ChatSession : ToolCall(s)
    \/ \E s \in ChatSession : HumanDecision(s)
    \/ \E s \in ChatSession : ResolveStep(s)
    \/ \E s \in ChatSession : EndTurn(s)

\* The registry of src/unnamed/part_001 contains that of part_002.
InitResolver == build = "audio" /\ InitStore /\ InitChat

SpecResolver == InitResolver /\ [][NextChat]_vars

\* Chat turns of two sessions, each in its own agentContext.run, interleaved
\* at their awaits.
NextContext ==
    \/ \E s \in Session : onChatMessage(s)
    \/ \E s \in Session : ToolCall(s)
    \/ \E s \in Session : ResolveStep(s)
    \/ \E s \in Session : EndTurn(s)

SpecContext == InitResolver /\ [][NextContext]_vars

\* ------------------------------------------------------ the scheduler hook
\* The parameters the language model passes to scheduleTask.
ScheduleTypes == {"scheduled", "delayed", "cron"}
Whens == { <<"10">> }
Payloads == { <<"stand up">>, <<"drink water">> }

\* agent.schedule(...) is called and not awaited: it throws before it
\* returns, or returns a promise that settles after the tool has returned.
Registrations == {"threw", "pending"}

\* The text scheduleTask.execute returns.
ScheduleResult(registration, when) ==
    IF registration = "threw"
    THEN <<"Error scheduling task: ", "Error: invalid schedule">>
    ELSE <<"Task scheduled for ">> \o when

\* scheduleTask.execute inside a turn of session s: the context carrier
\* holds the agent of s.
scheduleTask(s) ==
    /\ Len(tasks) < MaxTasks
    /\ \E type \in ScheduleTypes, when \in Whens, payload \in Payloads,
          registration \in Registrations :
         tasks' = Append(tasks, [session |-> s, type |-> type, when |-> when,
                                 payload |-> payload,
                                 registration |-> registration,
                                 result |-> ScheduleResult(registration, when)])
    /\ UNCHANGED <<build, pipelineVars, resolverVars, messages, firings>>

\* The promise of agent.schedule settles: the operation is registered with
\* the scheduling facility, or the registration is rejected.
RegistrationSettles ==
    /\ \E i \in 1..Len(tasks), outcome \in {"registered", "rejected"} :
         /\ tasks[i].registration = "pending"
         /\ tasks' = [tasks EXCEPT ![i].registration = outcome]
    /\ UNCHANGED <<build, pipelineVars, resolverVars, messages, firings>>

\* A message of the conversation: generateId() gives it a fresh id.
Message(id, role, content) == [id |-> id, role |-> role, content |-> content]

MessageCount == Len(messages["s1"]) + Len(messages["s2"])

\* A message of an ordinary turn is stored.
ChatMessage(s) ==
    /\ MessageCount < MaxMessages
    /\ messages' = [messages EXCEPT ![s] =
                      Append(@, Message(MessageCount + 1, "user", <<"hello">>))]
    /\ UNCHANGED <<build, pipelineVars, resolverVars, tasks, firings>>

\* [...this.messages, { id, role: "user", content: `scheduled message: ...` }]
SavedMessages_OnlyNew(history, id, description) ==
    <<Message(id, "user", <<"scheduled message: ">> \o description)>>

SavedMessages(history, id, description) ==
    Append(history, Message(id, "user", <<"scheduled message: ">> \o description))

\* The scheduling facility fires a registered operation: it calls
\* executeTask(payload) on the agent that registered it.  A cron schedule
\* stays registered.
executeTask ==
    /\ MessageCount < MaxMessages
    /\ \E i \in 1..Len(tasks) :
         /\ tasks[i].registration = "registered"
         /\ messages' = [messages EXCEPT ![tasks[i].session] =
                            SavedMessages(@, MessageCount + 1, tasks[i].payload)]
         /\ tasks' = [tasks EXCEPT ![i].registration =
                         IF tasks[i].type = "cron" THEN "registered" ELSE "fired"]
    /\ firings' = firings + 1
    /\ UNCHANGED <<build, pipelineVars, resolverVars>>

NextSchedule ==
    \/ \E s \in Session : scheduleTask(s)
    \/ RegistrationSettles
    \/ \E s \in Session : ChatMessage(s)
    \/ executeTask

InitSchedule == build \in Build /\ InitStore /\ InitChat

SpecSchedule == InitSchedule /\ [][NextSchedule]_vars

\* The operations of the revision of src/src/server.ts.
Next ==
    \/ \E s \in Session : StartGeneratePodcast(s)
    \/ \E s \in Session : GpSlug(s)
    \/ \E s \in Session : GpTables(s)
    \/ \E s \in Session : GpExists(s)
    \/ \E s \in Session : GpInsert(s)
    \/ \E s \in Session : GpMsg(s)

\* The operations of the revision of src/unnamed/part_000.
\* Its runs are explored one after another in one session; runs racing on
\* the shared store are explored by Next.
AudioSession == {"s1"}

NextAudio ==
    \/ \E s \in AudioSession : StartGeneratePodcast(s)
    \/ \E s \in AudioSession : GpSlug(s)
    \/ \E s \in AudioSession : GpExists(s)
    \/ \E s \in AudioSession : GpInsert(s)
    \/ \E s \in AudioSession : GpMsg(s)
    \/ \E s \in AudioSession : StartCreateAudioPodcast(s)
    \/ \E s \in AudioSession : CaScript(s)
    \/ \E s \in AudioSession : CaAudio(s)
    \/ \E s \in AudioSession : CaSlug(s)
    \/ \E s \in AudioSession : CaExists(s)
    \/ \E s \in AudioSession : CaAlterScript(s)
    \/ \E s \in AudioSession : CaAlterAudio(s)
    \/ \E s \in AudioSession : CaInsert(s)
    \/ \E s \in AudioSession : CaBasicInsert(s)

\* The read operations of both revisions, against a store that holds the
\* records earlier pipeline runs have left.
RecordTopics == { <<"A", "b">>, <<"c">> }

StoredSlug(i) == <<"pod", "-", ToString(i)>>

\* The stores of up to MaxRecords records: distinct slugs, created_at in
\* insertion order.
Stores ==
    UNION {
      {[i \in 1..k |-> Record(topic[i], StoredSlug(i), UrlOf(StoredSlug(i)),
                              Null, Null, at[i])] :
          topic \in [1..k -> RecordTopics],
          at \in {f \in [1..k -> 1..MaxTime] :
                    \A i \in 1..k : i < k => f[i] <= f[i + 1]}} :
      k \in 0..MaxRecords }

InitQuery ==
    /\ build \in Build
    /\ db \in Stores
    /\ now = IF db = <<>> THEN 1 ELSE db[Len(db)].created_at
    /\ columns = {}
    /\ run = [s \in Session |-> IdleRun]
    /\ started = 0
    /\ InitChat

QuerySession == {"s1"}

NextQuery ==
    \/ \E s \in QuerySession : StartListRecentPodcasts(s)
    \/ \E s \in QuerySession : LrTables(s)
    \/ \E s \in QuerySession : LrQuery(s)
    \/ \E s \in QuerySession : StartRecommendPodcast(s)
    \/ \E s \in QuerySession : RpTables(s)
    \/ \E s \in QuerySession : RpQuery(s)
    \/ \E s \in QuerySession : RpStage1(s)
    \/ \E s \in QuerySession : RpStage2(s)
    \/ \E s \in QuerySession : RpFallback(s)

SpecQuery == InitQuery /\ [][NextQuery]_vars

\* Slug synthesis of createAudioPodcast for every topic of up to MaxTopicLen
\* characters: a run that has its script and has attempted the audio.
TopicAlphabet == {"A", "b", "1", "-", " ", "!"}

TopicStrings == UNION {[1..n -> TopicAlphabet] : n \in 0..MaxTopicLen}

InitSlug ==
    /\ build = "audio"
    /\ now = 1 /\ db = <<>> /\ columns = {}
    /\ started = 1
    /\ \E topic \in TopicStrings, mode \in Modes :
         run = [s \in Session |->
                  IF s \in AudioSession
                  THEN [IdleRun EXCEPT !.op = "createAudioPodcast",
                                       !.pc = "ca_slug",
                                       !.topic = topic,
                                       !.mode = mode,
                                       !.script = <<"Welcome to the show.">>,
                                       !.calls = <<"ai.script", "ai.audio">>]
                  ELSE IdleRun]
    /\ InitChat

NextSlug == \E s \in AudioSession : CaSlug(s)

SpecSlug == InitSlug /\ [][NextSlug]_vars

Spec == Init /\ [][Next]_vars

SpecAudio == InitAudio /\ [][NextAudio]_vars

\* One step of a createAudioPodcast run: the call the run awaits settles and
\* the event loop resumes the function.
AudioStep(s) ==
    \/ CaScript(s) \/ CaAudio(s) \/ CaSlug(s) \/ CaExists(s)
    \/ CaAlterScript(s) \/ CaAlterAudio(s) \/ CaInsert(s) \/ CaBasicInsert(s)

\* The tool's execute function calls agent.createAudioPodcast; MaxLiveRuns
\* runs are followed to their end.
StartLiveRun(s) == started < MaxLiveRuns /\ StartCreateAudioPodcast(s)

NextAudioLive ==
    \/ \E s \in AudioSession : StartLiveRun(s)
    \/ \E s \in AudioSession : CaScript(s)
    \/ \E s \in AudioSession : CaAudio(s)
    \/ \E s \in AudioSession : CaSlug(s)
    \/ \E s \in AudioSession : CaExists(s)
    \/ \E s \in AudioSession : CaAlterScript(s)
    \/ \E s \in AudioSession : CaAlterAudio(s)
    \/ \E s \in AudioSession : CaInsert(s)
    \/ \E s \in AudioSession : CaBasicInsert(s)

\* createAudioPodcast when every capability and store call eventually
\* resolves or rejects.
SpecAudioLive ==
    InitAudio /\ [][NextAudioLive]_vars
        /\ \A s \in AudioSession : WF_vars(AudioStep(s))

TypeOK == /\ build \in Build
          /\ now \in 1..MaxTime
          /\ started \in 0..RunBound
          /\ \A s \in Session : run[s].outcome \in {"none", "returned", "threw"}

\* --------------------------------------------------------------- claims
Done(s) == run[s].pc = "done"

LastCall(s) == run[s].calls[Len(run[s].calls)]

Count(seq, x) == Cardinality({i \in 1..Len(seq) : seq[i] = x})

\* C1: every pipeline operation ends by returning a non-empty text; it never
\* throws to its caller and never returns an empty or undefined value.
C1_AlwaysReturnsText ==
    \A s \in Session :
        Done(s) => run[s].outcome = "returned" /\ Truthy(run[s].result)

\* The invocations a turn has to look at: those without a result when it
\* began and those the language model asked for since.
TurnInvocations(s) ==
    turn[s].unresolved \cup ((turn[s].len0 + 1)..Len(invs[s]))

StreamedFor(s, id) ==
    Cardinality({k \in 1..Len(stream[s]) : stream[s][k].id = id})

\* C2: a getWeatherInformation invocation without a paired human decision
\* has no terminal result and its execution function has never been called,
\* however many turns the resolver has run over it; it stays Pending.
C2_UndecidedStaysPending ==
    \A s \in Session : \A i \in 1..Len(invs[s]) :
        (invs[s][i].name = "getWeatherInformation" /\ invs[s][i].decision = "none")
        => /\ invs[s][i].status = "Pending"
           /\ invs[s][i].result = Undefined
           /\ invs[s][i].execs = 0
           /\ StreamedFor(s, invs[s][i].id) = 0

\* An undecided weather invocation of an earlier turn that the resolver has
\* passed again in the current turn.
C2_Witness ==
    \E s \in Session : \E i \in 1..Len(invs[s]) :
        /\ invs[s][i].name = "getWeatherInformation"
        /\ invs[s][i].decision = "none"
        /\ turn[s].active /\ i <= turn[s].len0 /\ turn[s].pos > i

\* C3: every invocation id receives at most one terminal result and its tool
\* is executed at most once, also when the resolver runs again over a
\* history that already holds the result; an invocation is terminal exactly
\* when it has that one result.
C3_AtMostOneResult ==
    \A s \in Session : \A i \in 1..Len(invs[s]) :
        /\ StreamedFor(s, invs[s][i].id) <= 1
        /\ invs[s][i].execs <= 1
        /\ Terminal(invs[s][i]) <=> StreamedFor(s, invs[s][i].id) = 1
        /\ Terminal(invs[s][i]) <=> invs[s][i].result # Undefined

\* The resolver has passed, in the current turn, an invocation that already
\* had its result when the turn began.
C3_Witness ==
    \E s \in Session : \E i \in 1..Len(invs[s]) :
        /\ turn[s].active /\ i <= turn[s].len0 /\ turn[s].pos > i
        /\ i \notin turn[s].unresolved
        /\ Terminal(invs[s][i])
        /\ invs[s][i].execs = 1

AutoExecutableNames ==
    {"getLocalTime", "scheduleTask", "generatePodcast", "createAudioPodcast",
     "listRecentPodcasts", "recommendPodcast"}

AutoOfTurn(s) ==
    {i \in TurnInvocations(s) : invs[s][i].name \in AutoExecutableNames}

UndecidedOfTurn(s) ==
    {i \in TurnInvocations(s) : /\ invs[s][i].name = "getWeatherInformation"
                                /\ invs[s][i].decision = "none"}

DecidedOfTurn(s) ==
    {i \in TurnInvocations(s) : /\ invs[s][i].name = "getWeatherInformation"
                                /\ invs[s][i].decision # "none"}

TurnComplete(s) == turn[s].active /\ turn[s].pos > Len(invs[s])

\* C4: a turn with N AutoExecutable invocations and M undecided
\* getWeatherInformation invocations produces exactly N terminal results,
\* one for each AutoExecutable invocation, whatever M is.
C4_ExactlyNResults ==
    \A s \in Session :
        (TurnComplete(s) /\ DecidedOfTurn(s) = {})
        => /\ turn[s].produced = Cardinality(AutoOfTurn(s))
           /\ \A i \in AutoOfTurn(s) : Terminal(invs[s][i])
           /\ \A i \in UndecidedOfTurn(s) : ~Terminal(invs[s][i])

\* A completed turn in which an undecided invocation precedes an
\* AutoExecutable one.
C4_Witness ==
    \E s \in Session :
        /\ TurnComplete(s) /\ DecidedOfTurn(s) = {}
        /\ \E i \in UndecidedOfTurn(s), j \in AutoOfTurn(s) : i < j
        /\ \E i \in UndecidedOfTurn(s), j \in AutoOfTurn(s) : j < i

\* C5: when the execute function of an AutoExecutable tool throws, the
\* invocation gets a textual error result and nothing is thrown past the
\* resolver to the chat transport.
C5_ErrorsBecomeText ==
    \A s \in Session :
        /\ ~transportError[s]
        /\ \A i \in 1..Len(invs[s]) :
             invs[s][i].threw
             => /\ invs[s][i].status = "Executed"
                /\ invs[s][i].result # Undefined
                /\ Head(invs[s][i].result) = "Error: "
                /\ StreamedFor(s, invs[s][i].id) = 1

C5_Witness ==
    \E s \in Session : \E i \in 1..Len(invs[s]) :
        invs[s][i].name = "generatePodcast" /\ invs[s][i].threw

\* The topic of the model with its characters lower-cased and every run of
\* characters outside [a-z0-9] replaced by one hyphen, written out.
SanitizedTopic == <<"-", "a", "-", "b", "-">>

\* The text of the degraded response for a placeholder url.
IssuesText(topic, timestamp) ==
    <<"Audio podcast generation encountered issues for \"">> \o topic
    \o <<"\", but a placeholder page was created at: ">>
    \o <<baseUrl, "/", "audio-">> \o SanitizedTopic
    \o <<"-fallback-", ToString(timestamp)>>

\* C6: when script synthesis fails (the call rejects or returns an empty
\* response) createAudioPodcast ends at once with the "encountered issues"
\* text whose url is audio- + sanitized topic + -fallback- + epoch millis; the
\* run has made no other call and the store is unchanged.
C6_ScriptFailurePlaceholder ==
    [][\A s \in Session :
         (run[s].pc = "ca_script" /\ run'[s].pc # "ca_script"
            /\ ~Truthy(run'[s].script))
         => /\ run'[s].pc = "done"
            /\ run'[s].outcome = "returned"
            /\ \E timestamp \in now..MaxTime :
                 run'[s].result = IssuesText(run[s].topic, timestamp)
            /\ run'[s].calls = <<"ai.script">>
            /\ db' = db
            /\ columns' = columns]_vars

C6_Witness ==
    \E s \in Session :
        /\ Done(s) /\ run[s].op = "createAudioPodcast"
        /\ ~Truthy(run[s].script)
        /\ Len(db) > 0

\* C7: when script synthesis succeeds and audio synthesis fails, slug
\* synthesis, disambiguation and persistence still run, and the returned text
\* states text-only availability and contains the computed url.
C7_AudioFailureTextOnly ==
    \A s \in Session :
        (Done(s) /\ run[s].op = "createAudioPodcast"
           /\ Truthy(run[s].script) /\ ~Truthy(run[s].audioDataUrl))
        => /\ Count(run[s].calls, "db.exists") = 1
           /\ \E k \in 1..Len(run[s].calls) :
                run[s].calls[k] \in {"db.insert.full.ok", "db.insert.full.error"}
           /\ Contains(run[s].result, <<"Text-only version available">>)
           /\ Contains(run[s].result, run[s].finalUrl)

\* The slug the capability suggested, read back from the url computed from it.
SuggestedSlug(r) == SubSeq(r.url, 3, Len(r.url))

\* C8: in every outcome of generatePodcast past slug synthesis (insert
\* succeeded, uniqueness conflict, any other failure of a store call) the
\* returned text contains a computed url base + "/" + slug.
C8_TextContainsUrl ==
    \A s \in Session :
        (Done(s) /\ run[s].op = "generatePodcast" /\ Len(run[s].calls) > 1)
        => /\ run[s].outcome = "returned"
           /\ \/ Contains(run[s].result, <<baseUrl, "/">> \o SuggestedSlug(run[s]))
              \/ Contains(run[s].result, <<baseUrl, "/">> \o run[s].slug)

InsertCalls(s) ==
    {k \in 1..Len(run[s].calls) :
        run[s].calls[k] \in {"db.insert.ok", "db.insert.unique", "db.insert.error"}}

\* C10: when the insert of generatePodcast (server.ts) fails with a
\* uniqueness-constraint error the run makes no second insert and returns the
\* "now live" text with the url computed before disambiguation, not the url
\* of the disambiguated slug.
C10_ConflictReturnsOriginalUrl ==
    \A s \in Session :
        (build = "server" /\ Done(s) /\ run[s].op = "generatePodcast"
           /\ \E k \in 1..Len(run[s].calls) : run[s].calls[k] = "db.insert.unique")
        => /\ run[s].outcome = "returned"
           /\ run[s].result =
                <<"Podcast page is now live at this URL: ", baseUrl, "/">>
                \o SuggestedSlug(run[s]) \o <<" about ">> \o run[s].topic
           /\ Cardinality(InsertCalls(s)) = 1
           /\ LastCall(s) = "db.insert.unique"
           /\ run[s].existed
              => ~Contains(run[s].result, <<baseUrl, "/">> \o run[s].slug)

\* A run whose slug was disambiguated and whose insert still met the
\* uniqueness constraint.
C10_Witness ==
    \E s \in Session :
        /\ build = "server" /\ Done(s) /\ run[s].op = "generatePodcast"
        /\ LastCall(s) = "db.insert.unique"
        /\ run[s].existed

AiCalls(s) ==
    {k \in 1..Len(run[s].calls) :
        run[s].calls[k] \notin {"db.tables.ok", "db.tables.error",
                                "db.all.ok", "db.all.error"}}

\* C12: a recommendPodcast run against a store without records makes no
\* capability call at all, and when its query is answered it returns the
\* "generate some podcasts first" message.
C12_EmptyStoreNoCapabilityCall ==
    \A s \in Session :
        (run[s].op = "recommendPodcast" /\ db = <<>>)
        => /\ AiCalls(s) = {}
           /\ run[s].pc \in {"rp_tables", "rp_query", "done"}
           /\ Done(s) => run[s].outcome = "returned"
           /\ (Done(s) /\ LastCall(s) = "db.all.ok")
              => run[s].result = <<"No podcasts have been generated yet. Generate some podcasts first to get recommendations!">>

C12_Witness ==
    \E s \in Session :
        /\ Done(s) /\ run[s].op = "recommendPodcast" /\ db = <<>>
        /\ LastCall(s) = "db.all.ok"

\* The positions of the bullets of a digest, and the number of its entries.
Bullets(text) == {q \in 1..Len(text) : text[q] = "* "}

\* The entry that starts at position q of text is the one of record p.
EntryOf(text, q, p) ==
    LET line == <<"* ">> \o p.topic \o <<" - ">> \o p.url
    IN /\ q + Len(line) - 1 <= Len(text)
       /\ SubSeq(text, q, q + Len(line) - 1) = line

\* C13: listRecentPodcasts(limit) against a store of k records, limit >= 1
\* and k >= 1, returns a digest of exactly min(limit, k) entries; they are
\* records of the store, none created before a record that is left out, in
\* an order in which the creation time never increases.
C13_DigestOfMostRecent ==
    \A s \in Session :
        (Done(s) /\ run[s].op = "listRecentPodcasts"
           /\ LastCall(s) = "db.list.ok" /\ run[s].limit >= 1 /\ Len(db) >= 1)
        => LET n == IF run[s].limit < Len(db) THEN run[s].limit ELSE Len(db)
               rows == run[s].podcasts
               text == run[s].result
           IN /\ Cardinality(Bullets(text)) = n
              /\ Len(rows) = n
              /\ \A i \in 1..n :
                   /\ \E j \in 1..Len(db) : db[j] = rows[i]
                   /\ \A j \in 1..n : i < j =>
                        /\ rows[i].created_at >= rows[j].created_at
                        /\ rows[i].slug # rows[j].slug
                   /\ \A j \in 1..Len(db) :
                        (\A m \in 1..n : rows[m].slug # db[j].slug)
                        => db[j].created_at <= rows[i].created_at
                   /\ \E q \in Bullets(text) :
                        /\ Cardinality({b \in Bullets(text) : b < q}) = i - 1
                        /\ EntryOf(text, q, rows[i])

\* A digest of two entries of a store of three records created at more than
\* one time.
C13_Witness ==
    \E s \in Session :
        /\ Done(s) /\ run[s].op = "listRecentPodcasts"
        /\ LastCall(s) = "db.list.ok"
        /\ run[s].limit = 2 /\ Len(db) = 3
        /\ db[1].created_at < db[3].created_at
        /\ Cardinality(Bullets(run[s].result)) = 2

\* C14: listRecentPodcasts never throws; against a store without records it
\* returns "No podcasts have been generated yet.", a failing store call gives
\* the "Failed to retrieve" text, and no digest has zero entries.
C14_EmptyListMessage ==
    \A s \in Session :
        (Done(s) /\ run[s].op = "listRecentPodcasts")
        => /\ run[s].outcome = "returned"
           /\ Truthy(run[s].result)
           /\ (LastCall(s) = "db.list.ok" /\ db = <<>>)
              => run[s].result = <<"No podcasts have been generated yet.">>
           /\ LastCall(s) \in {"db.list.error", "db.tables.error"}
              => Head(run[s].result) =
                   "Failed to retrieve podcast list from database. Error: "
           /\ Bullets(run[s].result) = {}
              => \/ run[s].result = <<"No podcasts have been generated yet.">>
                 \/ Head(run[s].result) =
                      "Failed to retrieve podcast list from database. Error: "

C14_Witness ==
    \E s \in Session :
        /\ Done(s) /\ run[s].op = "listRecentPodcasts"
        /\ LastCall(s) = "db.list.ok" /\ db = <<>>

\* C16: in the two-stage recommendPodcast, when Stage 1 gave a text and
\* Stage 2 gives nothing (an empty response, or a failed call), the run
\* returns Stage 1's text under the recommendation heading.
C16_Stage2FallsBackToStage1 ==
    \A s \in Session :
        (Done(s) /\ run[s].op = "recommendPodcast" /\ build = "server"
           /\ Truthy(run[s].stage1)
           /\ LastCall(s) \in {"ai.stage2.empty", "ai.stage2.reject"})
        => run[s].result = <<"Podcast Recommendation:\n\n">> \o run[s].stage1

\* The mood lower-cased and split on whitespace: its words.
Keywords(mood) == SelectSeq(split(toLowerCase(mood)), LAMBDA w : w # <<>>)

\* The topic of a record contains one of the words of the mood.
TopicHasKeyword(p, mood) ==
    \E k \in 1..Len(Keywords(mood)) :
        Contains(toLowerCase(p.topic), Keywords(mood)[k])

\* C17: when Stage 1 gives no text and the store has records, the keyword
\* matching decides: the no-match message is returned exactly when no topic
\* contains a word of the mood, and otherwise the text recommends the first
\* record, most recent first, whose topic contains one.
C17_KeywordMatchDecides ==
    \A s \in Session :
        (Done(s) /\ run[s].op = "recommendPodcast"
           /\ \E k \in 1..Len(run[s].calls) : run[s].calls[k] = "ai.stage1.empty")
        => LET rows == run[s].podcasts
               hits == {i \in 1..Len(rows) : TopicHasKeyword(rows[i], run[s].mood)}
               nomatch == <<"No podcasts found matching \"">> \o run[s].mood
                   \o <<"\". Try generating some podcasts with topics you're interested in first!">>
           IN /\ run[s].result = nomatch <=> hits = {}
              /\ hits # {} =>
                   \E i \in hits :
                       /\ \A j \in hits : i <= j
                       /\ Contains(run[s].result, rows[i].url)

\* C15: every failed registration of a scheduled operation, thrown by the
\* registration call or a later rejection of it, is reported by scheduleTask
\* as an "Error scheduling task" text and never as "Task scheduled".
C15_RegistrationFailureReported ==
    \A i \in 1..Len(tasks) :
        tasks[i].registration \in {"threw", "rejected"}
        => /\ Head(tasks[i].result) = "Error scheduling task: "
           /\ Head(tasks[i].result) # "Task scheduled for "

\* C18: a firing of a scheduled operation appends exactly one message with
\* role user and content "scheduled message: " + payload at the end of the
\* history of the session that registered it; the messages the history held
\* stay as they were, in their order, and no other history changes.
C18_FiringAppendsOneMessage ==
    [][firings' = firings + 1
       => \E i \in 1..Len(tasks) :
            LET s == tasks[i].session
                n == Len(messages[s])
            IN /\ tasks[i].registration = "registered"
               /\ Len(messages'[s]) = n + 1
               /\ \A k \in 1..n : messages'[s][k] = messages[s][k]
               /\ messages'[s][n + 1].role = "user"
               /\ messages'[s][n + 1].content =
                    <<"scheduled message: ">> \o tasks[i].payload
               /\ \A o \in Session \ {s} : messages'[o] = messages[o]]_vars

\* An operation has fired in a session whose history held a message.
C18_Witness ==
    \E s \in Session :
        /\ firings >= 1
        /\ Len(messages[s]) >= 2
        /\ messages[s][1].content = <<"hello">>
        /\ Head(messages[s][Len(messages[s])].content) = "scheduled message: "

\* The three responses of createAudioPodcast.
IsPlaceholder(text) ==
    Head(text) = "Audio podcast generation encountered issues for \""

IsTextOnly(text) ==
    /\ Head(text) = "Podcast script created for \""
    /\ Contains(text, <<"Text-only version available">>)

IsFull(text) ==
    /\ Head(text) = "Audio podcast created successfully for \""
    /\ Contains(text, <<"Includes playable MP3 audio">>)

\* C19: the response of createAudioPodcast is the placeholder text exactly
\* when script synthesis failed, the text-only text exactly when the script
\* succeeded and the audio failed, the full text exactly when both
\* succeeded, whatever happens in the later stages; each has a computed url.
C19_ResponseMatchesStages ==
    \A s \in Session :
        (Done(s) /\ run[s].op = "createAudioPodcast")
        => /\ run[s].outcome = "returned"
           /\ IsPlaceholder(run[s].result) <=> ~Truthy(run[s].script)
           /\ IsTextOnly(run[s].result)
                <=> (Truthy(run[s].script) /\ ~Truthy(run[s].audioDataUrl))
           /\ IsFull(run[s].result)
                <=> (Truthy(run[s].script) /\ Truthy(run[s].audioDataUrl))
           /\ Contains(run[s].result, <<baseUrl, "/", "audio-">>)

FullInserts(s) ==
    {k \in 1..Len(run[s].calls) :
        run[s].calls[k] \in {"db.insert.full.ok", "db.insert.full.error"}}

BasicInserts(s) ==
    {k \in 1..Len(run[s].calls) :
        run[s].calls[k] \in {"db.insert.basic.ok", "db.insert.basic.error"}}

\* C20: createAudioPodcast attempts the minimal insert exactly when the full
\* insert failed and attempts nothing after the minimal insert: at most two
\* inserts in a run, and when both fail the run still returns its success or
\* text-only response with the computed url.
C20_MinimalInsertAfterFullFailure ==
    \A s \in Session :
        run[s].op = "createAudioPodcast"
        => /\ Cardinality(FullInserts(s)) <= 1
           /\ Cardinality(BasicInserts(s)) <= 1
           /\ \A k \in BasicInserts(s) :
                /\ k > 1 /\ run[s].calls[k - 1] = "db.insert.full.error"
                /\ k = Len(run[s].calls) /\ Done(s)
           /\ \A k \in FullInserts(s) :
                run[s].calls[k] = "db.insert.full.error"
                => \/ run[s].pc = "ca_basic" /\ k = Len(run[s].calls)
                   \/ k + 1 \in BasicInserts(s)
           /\ (Done(s) /\ LastCall(s) = "db.insert.basic.error")
              => /\ run[s].outcome = "returned"
                 /\ Contains(run[s].result,
                             <<"\n\nVisit your podcast: ", baseUrl, "/">>
                             \o run[s].slug)
                 /\ IF Truthy(run[s].audioDataUrl) THEN IsFull(run[s].result)
                                                    ELSE IsTextOnly(run[s].result)

\* Both inserts of a run failed.
C20_Witness ==
    \E s \in Session :
        /\ Done(s) /\ run[s].op = "createAudioPodcast"
        /\ LastCall(s) = "db.insert.basic.error"
        /\ Truthy(run[s].audioDataUrl)

AlterErrors(s) ==
    {k \in 1..Len(run[s].calls) :
        run[s].calls[k] \in {"db.alter.script.error", "db.alter.audio_data.error"}}

\* C21: whatever optional columns the table has when the schema step of
\* createAudioPodcast starts, once the step is over both script and
\* audio_data exist, an "already exists" error being swallowed; the store
\* having refused no ALTER for another reason.
C21_SchemaEvolutionEnsuresColumns ==
    \A s \in Session :
        (run[s].op = "createAudioPodcast" /\ run[s].pc = "ca_insert"
           /\ AlterErrors(s) = {})
        => OptionalColumns \subseteq columns

\* C22: in both pipelines a run makes one existence query for its candidate
\* slug and never another; when the query finds a record the slug becomes
\* candidate + "-" + epoch millis, otherwise it stays the candidate, and the
\* run goes on to the insert without checking the new slug.
C22_SinglePassDisambiguation ==
    [][\A s \in Session :
         /\ Count(run'[s].calls, "db.exists") <= 1
         /\ (run[s].pc \in {"gp_exists", "ca_exists"} /\ run'[s].pc # run[s].pc)
            => /\ Count(run'[s].calls, "db.exists") = 1
               /\ run'[s].pc \in {"gp_insert", "gp_msg", "ca_alter_script"}
               /\ IF run'[s].existed
                  THEN /\ \E i \in 1..Len(db) : db[i].slug = run[s].slug
                       /\ \E timestamp \in now..MaxTime :
                            run'[s].slug =
                              run[s].slug \o <<"-", ToString(timestamp)>>
                  ELSE run'[s].slug = run[s].slug
               /\ (run'[s].pc = "gp_insert"
                     /\ \E i \in 1..Len(db) : db[i].slug = run[s].slug)
                  => run'[s].existed]_vars

\* A createAudioPodcast run whose slug was disambiguated and stored.
C22_Witness ==
    \E s \in Session :
        /\ Done(s) /\ run[s].op = "createAudioPodcast" /\ run[s].existed
        /\ LastCall(s) \in {"db.insert.full.ok", "db.insert.basic.ok"}
        /\ Len(db) = 2

\* The characters of a text that are letters or digits, lower-cased.
AlnumOf(str) ==
    SelectSeq(toLowerCase(str),
              LAMBDA c : c \in {"a", "b", "c", "s", "t", "0", "1", "2"})

\* C23: when the capability gives no slug text (no response, an empty or a
\* whitespace-only one) the slug of createAudioPodcast is "audio-" followed
\* by a part derived from the topic: only characters of [a-z0-9-], no hyphen
\* at either end, one hyphen for each inner run of other characters, and the
\* topic's letters and digits, lower-cased, in their order.
C23_DerivedSlugIsClean ==
    \A s \in Session :
        (run[s].op = "createAudioPodcast" /\ run[s].pc = "ca_exists"
           /\ run[s].slug # <<"audio-", "pod">>)
        => LET d == Tail(run[s].slug)
           IN /\ Head(run[s].slug) = "audio-"
              /\ \A i \in 1..Len(d) :
                   d[i] \in {"a", "b", "c", "s", "t", "0", "1", "2", "-"}
              /\ d # <<>> => d[1] # "-" /\ d[Len(d)] # "-"
              /\ \A i \in 1..(Len(d) - 1) : ~(d[i] = "-" /\ d[i + 1] = "-")
              /\ AlnumOf(d) = AlnumOf(run[s].topic)

\* A slug derived from a topic that starts and ends with other characters.
C23_Witness ==
    \E s \in Session :
        /\ run[s].op = "createAudioPodcast" /\ run[s].pc = "ca_exists"
        /\ Len(run[s].topic) = 3
        /\ run[s].topic[1] = "!" /\ run[s].topic[3] = " "
        /\ run[s].slug = <<"audio-", "a">>

\* The position of a call among the stages of createAudioPodcast.
StageOf(call) ==
    CASE call = "ai.script" -> 1
      [] call = "ai.audio" -> 2
      [] call = "ai.slug" -> 3
      [] call = "db.exists" -> 4
      [] call \in {"db.alter.script", "db.alter.script.duplicate",
                   "db.alter.script.error"} -> 5
      [] call \in {"db.alter.audio_data", "db.alter.audio_data.duplicate",
                   "db.alter.audio_data.error"} -> 6
      [] call \in {"db.insert.full.ok", "db.insert.full.error"} -> 7
      [] call \in {"db.insert.basic.ok", "db.insert.basic.error"} -> 8
      [] OTHER -> 0

\* The stage a run of createAudioPodcast is waiting in.
WaitingIn(pc) ==
    CASE pc = "ca_script" -> 1
      [] pc = "ca_audio" -> 2
      [] pc = "ca_slug" -> 3
      [] pc = "ca_exists" -> 4
      [] pc = "ca_alter_script" -> 5
      [] pc = "ca_alter_audio" -> 6
      [] pc = "ca_insert" -> 7
      [] pc = "ca_basic" -> 8
      [] OTHER -> 9

\* C24: the stages of one createAudioPodcast run are strictly ordered: every
\* call the run has made belongs to a later stage than the calls before it
\* and to an earlier stage than the one the run is waiting in (one call at a
\* time); the audio call is made only with a script in hand, and the slug
\* call, the existence check, the schema change and the inserts each follow
\* the completed call of the stage before.
C24_StagesStrictlyOrdered ==
    \A s \in Session :
        run[s].op = "createAudioPodcast"
        => LET calls == run[s].calls
           IN /\ \A i \in 1..Len(calls) : StageOf(calls[i]) \in 1..8
              /\ \A i \in 1..Len(calls) : StageOf(calls[i]) < WaitingIn(run[s].pc)
              /\ \A i \in 1..(Len(calls) - 1) :
                   StageOf(calls[i]) < StageOf(calls[i + 1])
              /\ Len(calls) >= 2 => calls[1] = "ai.script" /\ Truthy(run[s].script)
              /\ Len(calls) >= 2 => calls[2] = "ai.audio"
              /\ Len(calls) >= 3 => calls[3] = "ai.slug"
              /\ Len(calls) >= 4 => calls[4] = "db.exists"
              /\ Len(calls) >= 5 => StageOf(calls[5]) = 5
              /\ \A i \in 1..Len(calls) :
                   StageOf(calls[i]) = 8 => calls[i - 1] = "db.insert.full.error"

\* A run that went through all eight stages.
C24_Witness ==
    \E s \in Session :
        /\ Done(s) /\ run[s].op = "createAudioPodcast"
        /\ Len(run[s].calls) = 8
        /\ LastCall(s) = "db.insert.basic.ok"

\* The response is the text of exactly one of the three terminal states.
OneTerminalState(text) ==
    /\ IsFull(text) \/ IsTextOnly(text) \/ IsPlaceholder(text)
    /\ ~(IsFull(text) /\ IsTextOnly(text))
    /\ ~(IsFull(text) /\ IsPlaceholder(text))
    /\ ~(IsTextOnly(text) /\ IsPlaceholder(text))

\* C25: when every call eventually settles, every createAudioPodcast run
\* that has started script synthesis eventually returns the text of exactly
\* one of the three terminal states (full success, script only, placeholder),
\* and each step of a run moves it to a later stage (no stage is re-entered).
C25_RunReachesTerminalState ==
    /\ \A s \in Session : \A n \in 1..MaxLiveRuns :
          (started = n /\ run[s].op = "createAudioPodcast"
             /\ run[s].pc = "ca_script")
          ~> (started = n /\ run[s].op = "createAudioPodcast" /\ Done(s)
                /\ run[s].outcome = "returned"
                /\ OneTerminalState(run[s].result))
    /\ [][\A s \in Session :
            (run[s].op = "createAudioPodcast" /\ ~Done(s) /\ run'[s] # run[s])
            => /\ run'[s].op = "createAudioPodcast"
               /\ WaitingIn(run'[s].pc) > WaitingIn(run[s].pc)]_vars

\* A run has returned after its fallback insert failed.
C25_Witness ==
    \E s \in Session :
        /\ started = 1 /\ Done(s) /\ run[s].op = "createAudioPodcast"
        /\ LastCall(s) = "db.insert.basic.error"
        /\ IsTextOnly(run[s].result)

\* The tools of the registry that need the user's confirmation.
ConfirmationRequired == {name \in tools : ~HasExecute(name)}

\* C26: in the registry of either revision the tools without an execute
\* function are exactly the keys of the executions map, getWeatherInformation
\* is the only one, every other tool executes automatically, and a
\* confirmation-gated invocation that was run got its result from its
\* executions entry.
C26_ConfirmationRequiredIffNoExecute ==
    /\ ConfirmationRequired = executions
    /\ ConfirmationRequired = {"getWeatherInformation"}
    /\ \A name \in tools \ {"getWeatherInformation"} : HasExecute(name)
    /\ \A s \in Session : \A i \in 1..Len(invs[s]) :
          (invs[s][i].name \in ConfirmationRequired
             /\ invs[s][i].status = "Executed")
          => /\ invs[s][i].decision = "Approved"
             /\ invs[s][i].execs = 1
             /\ invs[s][i].result = WeatherExecution("Paris")

\* An approved getWeatherInformation invocation has been run, next to an
\* invocation of a tool that executed without confirmation.
C26_Witness ==
    \E s \in Session : \E i, j \in 1..Len(invs[s]) :
        /\ invs[s][i].name = "getWeatherInformation"
        /\ invs[s][i].decision = "Approved"
        /\ invs[s][i].status = "Executed"
        /\ invs[s][j].name = "getLocalTime"
        /\ invs[s][j].status = "Executed"

\* The inserts of a run that the store accepted.
OkInserts(calls) ==
    Cardinality({k \in 1..Len(calls) :
                   calls[k] \in {"db.insert.ok", "db.insert.full.ok",
                                 "db.insert.basic.ok"}})

\* The records the step of a session's run adds, as its calls report them.
AddedBy(s) ==
    IF Len(run'[s].calls) = Len(run[s].calls) + 1
    THEN OkInserts(run'[s].calls) - OkInserts(run[s].calls)
    ELSE 0

\* C27: a run of generatePodcast or createAudioPodcast adds at most one
\* record: every step leaves the store as it was or appends one record, a
\* record is appended exactly when a run completes an accepted insert, and no
\* run completes more than one (a successful full insert is never followed
\* by the fallback insert).
C27_AtMostOneRecordPerRun ==
    [][/\ \/ db' = db
           \/ /\ Len(db') = Len(db) + 1
              /\ SubSeq(db', 1, Len(db)) = db
        /\ Len(db') - Len(db) = AddedBy("s1") + AddedBy("s2")
        /\ \A s \in Session :
              /\ OkInserts(run'[s].calls) <= 1
              /\ Count(run'[s].calls, "db.insert.full.ok") = 1
                 => /\ Count(run'[s].calls, "db.insert.basic.ok") = 0
                    /\ Count(run'[s].calls, "db.insert.basic.error") = 0]_vars

\* Two runs have each left one record, the second through the fallback
\* insert after its full insert failed.
C27_Witness ==
    \E s \in Session :
        /\ Done(s) /\ run[s].op = "createAudioPodcast"
        /\ started = 2 /\ Len(db) = 2
        /\ Count(run[s].calls, "db.insert.full.error") = 1
        /\ LastCall(s) = "db.insert.basic.ok"

\* The records of the store that carry a slug.
RecordsOf(slug) == {i \in 1..Len(db) : db[i].slug = slug}

\* C28: a run that persisted a record stored a url equal to the base, "/"
\* and the stored slug (disambiguation suffix included), and the text the
\* run returned gives exactly that url.
C28_StoredUrlIsReturnedUrl ==
    \A s \in Session :
        (Done(s) /\ OkInserts(run[s].calls) = 1)
        => /\ Cardinality(RecordsOf(run[s].slug)) = 1
           /\ \A i \in RecordsOf(run[s].slug) :
                /\ db[i].url = <<baseUrl, "/">> \o db[i].slug
                /\ IF run[s].op = "generatePodcast"
                   THEN run[s].result =
                            <<"Podcast page is now live at this URL: ">>
                                \o db[i].url \o <<" about ">> \o run[s].topic
                   ELSE Contains(run[s].result,
                                 <<"\n\nVisit your podcast: ">> \o db[i].url
                                     \o <<"\n\n">>)

\* A run whose slug was disambiguated has persisted its record.
C28_Witness ==
    \E s \in Session :
        /\ Done(s) /\ OkInserts(run[s].calls) = 1
        /\ run[s].existed
        /\ Len(run[s].slug) > 2
        /\ Contains(run[s].result, run[s].slug)

\* C29: the record written by the fallback insert of createAudioPodcast has
\* the topic, slug and url the failed full insert was given; a run in
\* accessible mode stores a topic that starts with "Accessible" through
\* either insert.
C29_FallbackRecordMatchesFull ==
    \A s \in Session :
        (Done(s) /\ run[s].op = "createAudioPodcast"
           /\ LastCall(s) \in {"db.insert.full.ok", "db.insert.basic.ok"})
        => \A i \in RecordsOf(run[s].slug) :
             /\ db[i].topic = FullTopic(run[s].mode, run[s].topic)
             /\ db[i].url = run[s].finalUrl
             /\ isAccessible(run[s].mode) => Head(db[i].topic) = "Accessible"

\* The tools whose execute function reads the agent from the context carrier.
ReadsAgent(name) == HasExecute(name) /\ name # "getLocalTime"

\* C30: a tool that runs in a session's chat turn gets from the context
\* carrier the agent of that session: during a turn the carried agent is
\* present and is the session's own, also while a turn of the other session
\* is in progress, and every execution recorded the agent of its session.
C30_ToolSeesOwnAgent ==
    \A s \in Session :
        /\ turn[s].active => getStore(s) = s
        /\ \A i \in 1..Len(invs[s]) :
             (ReadsAgent(invs[s][i].name) /\ invs[s][i].execs > 0)
             => invs[s][i].agent = s

\* Turns of both sessions are in progress and each has run a tool that reads
\* the agent.
C30_Witness ==
    /\ \A s \in Session : turn[s].active
    /\ \A s \in Session : \E i \in 1..Len(invs[s]) :
          /\ ReadsAgent(invs[s][i].name)
          /\ invs[s][i].execs = 1
          /\ invs[s][i].agent = s
====
